---- MODULE Spec2Model ----
(***************************************************************************)
(* interproscan-reader: the boolean expression language (lexer, parser,    *)
(* evaluator) and the streaming GFF reader that groups domain lines under  *)
(* gene lines and filters them.                                            *)
(*                                                                         *)
(* Strings are sequences of one-character strings, so that the lexer, the  *)
(* `$` split and the integer parse are computed as the code computes them. *)
(***************************************************************************)
EXTENDS Integers, Sequences, FiniteSets, TLC

\* ------------------------------------------------------------------------
\* Result<T, Box<dyn Error>>
\* ------------------------------------------------------------------------
Ok(v) == [ok |-> TRUE, val |-> v]

Err(e) == [ok |-> FALSE, err |-> e]

\* ------------------------------------------------------------------------
\* parser/lex.rs
\* ------------------------------------------------------------------------
OpenBracket == [type |-> "OpenBracket"]

CloseBracket == [type |-> "CloseBracket"]

Invert == [type |-> "Invert"]

And == [type |-> "And"]

Or == [type |-> "Or"]

Name(s) == [type |-> "Name", text |-> s]

\* Option<Token>: None is the value NoToken.
NoToken == [type |-> "None"]

\* Token::op_from_char
op_from_char(c) ==
    CASE c = "(" -> OpenBracket
      [] c = ")" -> CloseBracket
      [] c = "|" \/ c = "," -> Or
      [] c = "&" -> And
      [] c = "!" -> Invert
      [] OTHER -> NoToken

\* char::is_whitespace, on the characters the model's inputs use
is_whitespace(c) == c \in {" ", "\t", "\n"}

\* One iteration of the `for c in s.chars()` loop of lex, on the loop state
\* st = [state, tokens, cur_name].
lex_step(st, c) ==
    LET op_token == op_from_char(c) IN
    IF st.state = "InName"
    THEN IF op_token # NoToken
         THEN [state |-> "Ready",
               tokens |-> st.tokens \o <<Name(st.cur_name), op_token>>,
               cur_name |-> <<>>]
         ELSE IF is_whitespace(c)
         THEN [state |-> "Ready",
               tokens |-> Append(st.tokens, Name(st.cur_name)),
               cur_name |-> <<>>]
         ELSE [st EXCEPT !.cur_name = Append(st.cur_name, c)]
    ELSE IF op_token # NoToken
         THEN [st EXCEPT !.tokens = Append(st.tokens, op_token)]
         ELSE IF ~is_whitespace(c)
         THEN [st EXCEPT !.cur_name = Append(st.cur_name, c), !.state = "InName"]
         ELSE st

RECURSIVE lex_loop(_, _)
lex_loop(st, s) ==
    IF s = <<>> THEN st ELSE lex_loop(lex_step(st, Head(s)), Tail(s))

\* Mutant of lex_flush: the name still open at the end of the text is lost.
lex_flush_dropped(st) == st.tokens

\* The flush after the loop: a name still open at the end is the last token.
lex_flush(st) ==
    IF st.cur_name # <<>> THEN Append(st.tokens, Name(st.cur_name)) ELSE st.tokens

\* lex(s): always Ok(tokens)
lex(s) ==
    Ok(lex_flush(lex_loop([state |-> "Ready", tokens |-> <<>>, cur_name |-> <<>>], s)))

\* ------------------------------------------------------------------------
\* parser/ast.rs: Node and Node::munch_tokens
\* ------------------------------------------------------------------------
NodeName(s) == [node |-> "Name", text |-> s]

NodeInvert(n) == [node |-> "Invert", inner |-> n]

NodeAnd(l, r) == [node |-> "And", lhs |-> l, rhs |-> r]

NodeOr(l, r) == [node |-> "Or", lhs |-> l, rhs |-> r]

\* Mutant of MAX_RECURSION: the budget is one too large.
MAX_RECURSION_off_by_one == 20 + 1

MAX_RECURSION == 20

\* VecDeque::insert(index, value), index counted from 0
insert(q, index, value) ==
    SubSeq(q, 1, index) \o <<value>> \o SubSeq(q, index + 1, Len(q))

\* VecDeque::front / VecDeque::get(i), i counted from 0; None past the end
get(q, i) == IF i < Len(q) THEN q[i + 1] ELSE NoToken

add_bracket(tokens) ==
    LET elem == Head(tokens) IN
    <<OpenBracket, elem, CloseBracket>> \o Tail(tokens)

\* munch_tokens works on a &mut VecDeque: a successful call returns the node
\* and the tokens it left in the deque.
Munched(n, rest) == [ok |-> TRUE, val |-> n, rest |-> rest]

\* Mutant of invert_splice: the brackets go around the whole rest, `!(name op ...)`.
invert_splice_wide(tokens) == <<Invert, OpenBracket>> \o tokens \o <<CloseBracket>>

\* The splice of the Invert arm for `!name op ...`; the `!` is popped already.
invert_splice(tokens) ==
    insert(insert(insert(insert(insert(tokens, 0, OpenBracket), 1, Invert),
                         2, OpenBracket), 4, CloseBracket), 5, CloseBracket)

RECURSIVE munch_tokens(_, _)
\* Mutant of munch_bracket: the operands of the binary node are swapped.
munch_bracket_swapped(tokens, depth) ==
    LET r == munch_tokens(tokens, depth - 1) IN
    IF ~r.ok THEN r
    ELSE IF r.rest # <<>> /\ Head(r.rest) # CloseBracket
    THEN Err("expected closing bracket")
    ELSE LET t == IF r.rest = <<>> THEN <<>> ELSE Tail(r.rest)
             nx == get(t, 0)
         IN  CASE nx = And ->
                    LET rhs == munch_tokens(Tail(t), depth - 1) IN
                    IF rhs.ok THEN Munched(NodeAnd(rhs.val, r.val), rhs.rest) ELSE rhs
               [] nx = Or ->
                    LET rhs == munch_tokens(Tail(t), depth - 1) IN
                    IF rhs.ok THEN Munched(NodeOr(rhs.val, r.val), rhs.rest) ELSE rhs
               [] nx = NoToken \/ nx = CloseBracket -> Munched(r.val, t)
               [] OTHER -> Err("invald token after closing bracket")

\* The OpenBracket arm, after the `(` is popped.
munch_bracket(tokens, depth) ==
    LET r == munch_tokens(tokens, depth - 1) IN
    IF ~r.ok THEN r
    ELSE IF r.rest # <<>> /\ Head(r.rest) # CloseBracket
    THEN Err("expected closing bracket")
    ELSE LET t == IF r.rest = <<>> THEN <<>> ELSE Tail(r.rest)
             nx == get(t, 0)
         IN  CASE nx = And ->
                    LET rhs == munch_tokens(Tail(t), depth - 1) IN
                    IF rhs.ok THEN Munched(NodeAnd(r.val, rhs.val), rhs.rest) ELSE rhs
               [] nx = Or ->
                    LET rhs == munch_tokens(Tail(t), depth - 1) IN
                    IF rhs.ok THEN Munched(NodeOr(r.val, rhs.val), rhs.rest) ELSE rhs
               [] nx = NoToken \/ nx = CloseBracket -> Munched(r.val, t)
               [] OTHER -> Err("invald token after closing bracket")

\* The Invert arm, after the `!` is popped.
munch_invert(tokens, depth) ==
    LET nx == get(tokens, 0) IN
    CASE nx = OpenBracket ->
           LET r == munch_tokens(tokens, depth - 1) IN
           IF r.ok THEN Munched(NodeInvert(r.val), r.rest) ELSE r
      [] nx.type = "Name" ->
           LET after == get(tokens, 1) IN
           CASE after = And \/ after = Or ->
                  munch_tokens(invert_splice(tokens), depth - 1)
             [] after = NoToken \/ after = CloseBracket ->
                  Munched(NodeInvert(NodeName(nx.text)), Tail(tokens))
             [] OTHER -> Err("invalid token after inverted name")
      [] nx = Invert -> Err("Can't double invert, that would be no mean")
      [] nx = NoToken -> Err("Expected token to invert, got EOF")
      [] OTHER -> Err("expected expression")

\* Mutant of munch_name: the reparse after add_bracket does not use up a level.
munch_name_same_depth(tokens, depth) ==
    LET after == get(tokens, 1) IN
    CASE after = And \/ after = Or -> munch_tokens(add_bracket(tokens), depth)
      [] after = CloseBracket \/ after = NoToken ->
           Munched(NodeName(Head(tokens).text), Tail(tokens))
      [] OTHER -> Err("Name followed by invalid token")

\* The Name arm; the name is still at the front.
munch_name(tokens, depth) ==
    LET after == get(tokens, 1) IN
    CASE after = And \/ after = Or -> munch_tokens(add_bracket(tokens), depth - 1)
      [] after = CloseBracket \/ after = NoToken ->
           Munched(NodeName(Head(tokens).text), Tail(tokens))
      [] OTHER -> Err("Name followed by invalid token")

munch_tokens(tokens, depth) ==
    IF depth = 0 THEN Err("Expression too deep")
    ELSE LET next == get(tokens, 0) IN
         CASE next = NoToken -> Err("unexpected end of expression")
           [] next = CloseBracket -> Err("Unexpected closing bracket")
           [] next = OpenBracket -> munch_bracket(Tail(tokens), depth)
           [] next = Invert -> munch_invert(Tail(tokens), depth)
           [] next.type = "Name" -> munch_name(tokens, depth)
           [] OTHER -> Err("Unexpected binary operator")

\* ------------------------------------------------------------------------
\* parser/ast.rs: Node::matches
\* ------------------------------------------------------------------------
\* str::split("$"): the pieces between the `$` characters, at least one piece
RECURSIVE split_from(_, _, _)
split_from(s, sep, cur) ==
    IF s = <<>> THEN <<cur>>
    ELSE IF Head(s) = sep THEN <<cur>> \o split_from(Tail(s), sep, <<>>)
    ELSE split_from(Tail(s), sep, Append(cur, Head(s)))

split(s, sep) == split_from(s, sep, <<>>)

DigitValue ==
    [c \in {"0", "1", "2", "3", "4", "5", "6", "7", "8", "9"} |->
        CASE c = "0" -> 0 [] c = "1" -> 1 [] c = "2" -> 2 [] c = "3" -> 3
          [] c = "4" -> 4 [] c = "5" -> 5 [] c = "6" -> 6 [] c = "7" -> 7
          [] c = "8" -> 8 [] c = "9" -> 9]

RECURSIVE digits_value(_, _)
digits_value(s, acc) ==
    IF s = <<>> THEN acc ELSE digits_value(Tail(s), acc * 10 + DigitValue[Head(s)])

\* str::parse::<usize>: an optional `+`, then one or more decimal digits.
\* (The inputs of the model are far below usize::MAX, so the overflow error
\* of the parse does not arise.)
parse_usize(s) ==
    LET body == IF s # <<>> /\ Head(s) = "+" THEN Tail(s) ELSE s IN
    IF body = <<>> \/ \E i \in 1..Len(body) : body[i] \notin DOMAIN DigitValue
    THEN Err("ParseIntError")
    ELSE Ok(digits_value(body, 0))

\* tags.iter().filter(|x| x == name).count()
count_tag(tags, name) == Cardinality({i \in 1..Len(tags) : tags[i] = name})

\* tags.contains(name)
contains(tags, name) == \E i \in 1..Len(tags) : tags[i] = name

\* Mutant of name_matches: `text$N` asks for at least N occurrences.
name_matches_at_least(text, tags) ==
    LET splitted == split(text, "$") IN
    CASE Len(splitted) = 1 -> Ok(contains(tags, text))
      [] Len(splitted) = 2 ->
           LET count == parse_usize(splitted[2]) IN
           IF count.ok THEN Ok(count.val <= count_tag(tags, splitted[1])) ELSE count
      [] OTHER -> Err("unexpected text format")

\* The Name arm of Node::matches
name_matches(text, tags) ==
    LET splitted == split(text, "$") IN
    CASE Len(splitted) = 1 -> Ok(contains(tags, text))
      [] Len(splitted) = 2 ->
           LET count == parse_usize(splitted[2]) IN
           IF count.ok THEN Ok(count.val = count_tag(tags, splitted[1])) ELSE count
      [] OTHER -> Err("unexpected text format")

RECURSIVE node_matches(_, _)
node_matches(n, tags) ==
    CASE n.node = "Invert" ->
           LET r == node_matches(n.inner, tags) IN
           IF r.ok THEN Ok(~r.val) ELSE r
      [] n.node = "Name" -> name_matches(n.text, tags)
      [] n.node = "And" ->
           LET l == node_matches(n.lhs, tags) IN
           IF ~l.ok THEN l
           ELSE IF ~l.val THEN Ok(FALSE)
           ELSE node_matches(n.rhs, tags)
      [] n.node = "Or" ->
           LET l == node_matches(n.lhs, tags) IN
           IF ~l.ok THEN l
           ELSE IF l.val THEN Ok(TRUE)
           ELSE node_matches(n.rhs, tags)

\* ------------------------------------------------------------------------
\* parser/expr.rs: Expr
\* ------------------------------------------------------------------------
Empty == [data |-> "Empty"]

HasNodes(n) == [data |-> "HasNodes", root |-> n]

\* Mutant of from_tokens: tokens left in the deque are not looked at.
from_tokens_no_eof_check(toks) ==
    IF toks = <<>> THEN Ok(Empty)
    ELSE LET ast == munch_tokens(toks, MAX_RECURSION) IN
         IF ~ast.ok THEN Err(ast.err) ELSE Ok(HasNodes(ast.val))

\* Expr::from_string on already lexed tokens
from_tokens(toks) ==
    IF toks = <<>> THEN Ok(Empty)
    ELSE LET ast == munch_tokens(toks, MAX_RECURSION) IN
         IF ~ast.ok THEN Err(ast.err)
         ELSE IF ast.rest # <<>> THEN Err("expected EOF, found extra tokens")
         ELSE Ok(HasNodes(ast.val))

from_string(s) ==
    LET lexed == lex(s) IN
    IF ~lexed.ok THEN lexed ELSE from_tokens(lexed.val)

\* Mutant of expr_matches: the empty expression matches nothing.
expr_matches_empty_false(e, tags) ==
    IF e = Empty THEN Ok(FALSE) ELSE node_matches(e.root, tags)

\* Expr::matches
expr_matches(e, tags) ==
    IF e = Empty THEN Ok(TRUE) ELSE node_matches(e.root, tags)

\* ------------------------------------------------------------------------
\* reader.rs: DomainRecord, parse_line, GeneRecord
\* ------------------------------------------------------------------------
\* Option<T>
None == [some |-> FALSE]

Some(v) == [some |-> TRUE, v |-> v]

DomainRecord(source, start, end, domain_name, domain_desc) ==
    [source |-> source, start |-> start, end |-> end,
     domain_name |-> domain_name, domain_desc |-> domain_desc]

\* DomainRecord::is_gene
is_gene(domain) == domain.source = <<".">>

\* str::starts_with
starts_with(s, prefix) ==
    Len(prefix) <= Len(s) /\ SubSeq(s, 1, Len(prefix)) = prefix

\* str::trim
RECURSIVE trim_start(_)
trim_start(s) ==
    IF s # <<>> /\ is_whitespace(Head(s)) THEN trim_start(Tail(s)) ELSE s

RECURSIVE trim_end(_)
trim_end(s) ==
    IF s # <<>> /\ is_whitespace(s[Len(s)])
    THEN trim_end(SubSeq(s, 1, Len(s) - 1)) ELSE s

trim(s) == trim_end(trim_start(s))

NO_NAME == <<"N", "o", " ", "N", "a", "m", "e">>

NO_DESCRIPTION ==
    <<"N", "o", " ", "D", "e", "s", "c", "r", "i", "p", "t", "i", "o", "n">>

ATTR_NAME == <<"N", "a", "m", "e">>

ATTR_DESC ==
    <<"s", "i", "g", "n", "a", "t", "u", "r", "e", "_", "d", "e", "s", "c">>

\* The attribute loop of parse_line: the last `key=value` piece with the
\* given key wins, pieces that are not `key=value` are passed over.
RECURSIVE attr_value(_, _, _)
attr_value(attrs, key, cur) ==
    IF attrs = <<>> THEN cur
    ELSE LET attr_records == split(Head(attrs), "=") IN
         IF Len(attr_records) = 2 /\ attr_records[1] = key
         THEN attr_value(Tail(attrs), key, attr_records[2])
         ELSE attr_value(Tail(attrs), key, cur)

\* parse_line: Ok([id, domain]) or an error
parse_line(raw) ==
    LET line == trim(raw)
        records == split(line, "\t")
    IN  IF Len(records) # 9 THEN Err("invalid line")
        ELSE LET start == parse_usize(records[4])
                 end == parse_usize(records[5])
                 attrs == split(records[9], ";")
             IN  IF ~start.ok THEN start
                 ELSE IF ~end.ok THEN end
                 ELSE Ok([id |-> records[1],
                          domain |-> DomainRecord(records[2], start.val, end.val,
                                        attr_value(attrs, ATTR_NAME, NO_NAME),
                                        attr_value(attrs, ATTR_DESC, NO_DESCRIPTION))])

\* u64 values are kept as integers v: v >= 0 is the value v, and v < 0 is the
\* value 2^64 + v, which is what a wrapped subtraction leaves.
u64_lt(x, y) == IF (x < 0) = (y < 0) THEN x < y ELSE y < 0

\* GeneRecord::new.  `end - start + 1` overflows for end < start: with
\* overflow checks (a debug build) the subtraction panics, without them
\* (a release build) the result wraps modulo 2^64.
gene_length(start, end) == end - start + 1

GeneRecord(id, length, domains) ==
    [id |-> id, length |-> length, domains |-> domains]

gene_record_new(id, start, end) == GeneRecord(id, gene_length(start, end), <<>>)

\* Mutant of push_domain: the new child goes to the front of the list.
push_domain_front(gene_record, domain) ==
    [gene_record EXCEPT !.domains = <<domain>> \o @]

\* GeneRecord::push_domain
push_domain(gene_record, domain) ==
    [gene_record EXCEPT !.domains = Append(@, domain)]

\* Expr::matches_domains: the tags are the domain names of the children
RECURSIVE domain_sources(_)
domain_sources(domains) ==
    IF domains = <<>> THEN <<>>
    ELSE <<Head(domains).source>> \o domain_sources(Tail(domains))

\* Mutant of matches_domains: the tags are the sources of the children.
matches_domains_by_source(e, gene_record) ==
    expr_matches(e, domain_sources(gene_record.domains))

RECURSIVE domain_names(_)
domain_names(domains) ==
    IF domains = <<>> THEN <<>>
    ELSE <<Head(domains).domain_name>> \o domain_names(Tail(domains))

matches_domains(e, gene_record) == expr_matches(e, domain_names(gene_record.domains))

\* GeneRecord::filter_by_source_expr.  `expect("must ok")` panics on an
\* evaluation error: source_panics tells whether it does.
source_panics(gene_record, source_expr) ==
    /\ source_expr.some
    /\ \E i \in 1..Len(gene_record.domains) :
          ~expr_matches(source_expr.v, <<gene_record.domains[i].source>>).ok

RECURSIVE filter_domains(_, _)
filter_domains(domains, e) ==
    IF domains = <<>> THEN <<>>
    ELSE (IF expr_matches(e, <<Head(domains).source>>).val
          THEN <<Head(domains)>> ELSE <<>>) \o filter_domains(Tail(domains), e)

RECURSIVE filter_domains_by_name(_, _)
filter_domains_by_name(domains, e) ==
    IF domains = <<>> THEN <<>>
    ELSE (IF expr_matches(e, <<Head(domains).domain_name>>).val
          THEN <<Head(domains)>> ELSE <<>>) \o filter_domains_by_name(Tail(domains), e)

\* Mutant of filter_by_source_expr: the expression is evaluated on the name of
\* the child instead of its source.
filter_by_source_expr_by_name(gene_record, source_expr) ==
    IF source_expr.some
    THEN GeneRecord(gene_record.id, gene_record.length,
                    filter_domains_by_name(gene_record.domains, source_expr.v))
    ELSE gene_record

filter_by_source_expr(gene_record, source_expr) ==
    IF source_expr.some
    THEN GeneRecord(gene_record.id, gene_record.length,
                    filter_domains(gene_record.domains, source_expr.v))
    ELSE gene_record

\* ------------------------------------------------------------------------
\* reader.rs: InterproGffReader
\* ------------------------------------------------------------------------
FINISH_LINE == <<"#", "#", " ", "F", "A", "S", "T", "A", " ", "#", "#">>

\* InterproGffReader::new
reader_new ==
    [comment |-> "#", finish_line |-> FINISH_LINE,
     id_expr |-> None, domain_expr |-> None, source_expr |-> None,
     max_length |-> None, min_length |-> None]

\* HashMap<String, GeneRecord>: a function on the keys present
EmptyMap == [k \in {} |-> None]

\* Mutant of or_insert: a plain insert, which replaces the record of the key.
or_insert_overwrite(map, id, gene_record) ==
    [k \in DOMAIN map \cup {id} |-> IF k = id THEN gene_record ELSE map[k]]

\* records_map.entry(id).or_insert(gene_record)
or_insert(map, id, gene_record) ==
    IF id \in DOMAIN map THEN map
    ELSE [k \in DOMAIN map \cup {id} |-> IF k = id THEN gene_record ELSE map[k]]

\* Mutant of finish_gene: the bounds are exclusive, a length equal to a bound
\* is passed over.
finish_gene_exclusive(r, map, id, domain, overflow_checks) ==
    IF domain.end < domain.start /\ overflow_checks
    THEN [ctl |-> "panic", map |-> map]
    ELSE LET gene_record == gene_record_new(id, domain.start, domain.end) IN
         IF r.max_length.some /\ ~u64_lt(gene_record.length, r.max_length.v)
         THEN [ctl |-> "continue", map |-> map]
         ELSE IF r.min_length.some /\ ~u64_lt(r.min_length.v, gene_record.length)
         THEN [ctl |-> "continue", map |-> map]
         ELSE [ctl |-> "continue", map |-> or_insert(map, id, gene_record)]

\* The arm of the loop for a parent-marker line (domain.is_gene()).
\* overflow_checks: whether the build panics on arithmetic overflow.
finish_gene(r, map, id, domain, overflow_checks) ==
    IF domain.end < domain.start /\ overflow_checks
    THEN [ctl |-> "panic", map |-> map]
    ELSE LET gene_record == gene_record_new(id, domain.start, domain.end) IN
         IF r.max_length.some /\ u64_lt(r.max_length.v, gene_record.length)
         THEN [ctl |-> "continue", map |-> map]
         ELSE IF r.min_length.some /\ u64_lt(gene_record.length, r.min_length.v)
         THEN [ctl |-> "continue", map |-> map]
         ELSE [ctl |-> "continue", map |-> or_insert(map, id, gene_record)]

\* The arm of the loop for a child line.
finish_child(map, id, domain) ==
    IF id \in DOMAIN map
    THEN [ctl |-> "continue", map |-> [map EXCEPT ![id] = push_domain(@, domain)]]
    ELSE [ctl |-> "continue", map |-> map]

\* Mutant of id_filter: the identifier expression is not looked at.
id_filter_off(r, id) == Ok(TRUE)

\* The identifier filter of the loop: whether the line goes on to the
\* parent/child arms, or the evaluation error of the expression.
id_filter(r, id) ==
    IF r.id_expr.some THEN expr_matches(r.id_expr.v, <<id>>) ELSE Ok(TRUE)

\* What the loop does with a line that passed the three tests at its top.
finish_record(r, map, line, overflow_checks) ==
    LET parsed == parse_line(line) IN
    IF ~parsed.ok THEN [ctl |-> "error", map |-> map]
    ELSE LET id == parsed.val.id
             domain == parsed.val.domain
             idm == id_filter(r, id)
         IN  IF ~idm.ok THEN [ctl |-> "error", map |-> map]
             ELSE IF ~idm.val THEN [ctl |-> "continue", map |-> map]
             ELSE IF is_gene(domain)
             THEN finish_gene(r, map, id, domain, overflow_checks)
             ELSE finish_child(map, id, domain)

\* Mutant of finish_step: the comment test comes before the sentinel test.
finish_step_comment_first(r, map, line, overflow_checks) ==
    IF starts_with(line, <<r.comment>>) THEN [ctl |-> "continue", map |-> map]
    ELSE IF starts_with(line, r.finish_line) THEN [ctl |-> "break", map |-> map]
    ELSE IF Len(line) = 1 THEN [ctl |-> "continue", map |-> map]
    ELSE finish_record(r, map, line, overflow_checks)

\* Mutant of finish_step: a line that does not parse is passed over.
finish_step_skip_unparsed(r, map, line, overflow_checks) ==
    IF starts_with(line, r.finish_line) THEN [ctl |-> "break", map |-> map]
    ELSE IF starts_with(line, <<r.comment>>) THEN [ctl |-> "continue", map |-> map]
    ELSE IF Len(line) = 1 THEN [ctl |-> "continue", map |-> map]
    ELSE IF ~parse_line(line).ok THEN [ctl |-> "continue", map |-> map]
    ELSE finish_record(r, map, line, overflow_checks)

\* Mutant of finish_step: the blank-line guard also skips an empty line.
finish_step_skip_empty(r, map, line, overflow_checks) ==
    IF starts_with(line, r.finish_line) THEN [ctl |-> "break", map |-> map]
    ELSE IF starts_with(line, <<r.comment>>) THEN [ctl |-> "continue", map |-> map]
    ELSE IF Len(line) <= 1 THEN [ctl |-> "continue", map |-> map]
    ELSE finish_record(r, map, line, overflow_checks)

\* One iteration of the `for line in self.reader.lines()` loop of finish:
\* what the loop does next (continue, break, return an error, panic) and the
\* accumulator it leaves.
finish_step(r, map, line, overflow_checks) ==
    IF starts_with(line, r.finish_line) THEN [ctl |-> "break", map |-> map]
    ELSE IF starts_with(line, <<r.comment>>) THEN [ctl |-> "continue", map |-> map]
    ELSE IF Len(line) = 1 THEN [ctl |-> "continue", map |-> map]
    ELSE finish_record(r, map, line, overflow_checks)

\* Mutant of domain_keep: the domain expression sees the children that the
\* source expression left.
domain_keep_after_prune(r, gene_record) ==
    IF r.domain_expr.some
    THEN LET pruned == IF source_panics(gene_record, r.source_expr) THEN gene_record
                       ELSE filter_by_source_expr(gene_record, r.source_expr)
             expr_result == matches_domains(r.domain_expr.v, pruned) IN
         IF expr_result.ok THEN expr_result.val ELSE FALSE
    ELSE TRUE

\* The closure of the post-pass `.filter(...)`: an evaluation error of the
\* domain expression counts as "does not match".
domain_keep(r, gene_record) ==
    IF r.domain_expr.some
    THEN LET expr_result == matches_domains(r.domain_expr.v, gene_record) IN
         IF expr_result.ok THEN expr_result.val ELSE FALSE
    ELSE TRUE

\* into_values() yields the records in an unspecified order: any enumeration
\* of the keys.
Orders(map) ==
    {o \in [1..Cardinality(DOMAIN map) -> DOMAIN map] :
        \A i, j \in DOMAIN o : o[i] = o[j] => i = j}

RECURSIVE collect_records(_, _, _)
collect_records(r, map, order) ==
    IF order = <<>> THEN <<>>
    ELSE (IF domain_keep(r, map[Head(order)])
          THEN <<filter_by_source_expr(map[Head(order)], r.source_expr)>>
          ELSE <<>>) \o collect_records(r, map, Tail(order))

\* Whether the post-pass panics: some record that passes the domain filter has
\* a child whose source the source expression cannot be evaluated on.
collect_panics(r, map) ==
    \E k \in DOMAIN map : domain_keep(r, map[k]) /\ source_panics(map[k], r.source_expr)

\* ------------------------------------------------------------------------
\* utils.rs: validate_source_expr
\* ------------------------------------------------------------------------
SOURCE_NAMES ==
    <<<<"M", "o", "b", "i", "D", "B", "L", "i", "t", "e">>,
      <<"G", "e", "n", "e", "3", "D">>,
      <<"P", "r", "o", "S", "i", "t", "e", "P", "a", "t", "t", "e", "r", "n", "s">>,
      <<"P", "A", "N", "T", "H", "E", "R">>,
      <<"C", "D", "D">>,
      <<"P", "f", "a", "m">>,
      <<"S", "U", "P", "E", "R", "F", "A", "M", "I", "L", "Y">>,
      <<"P", "r", "o", "S", "i", "t", "e", "P", "r", "o", "f", "i", "l", "e", "s">>,
      <<"P", "R", "I", "N", "T", "S">>,
      <<"P", "I", "R", "S", "F">>,
      <<"T", "I", "G", "R", "F", "A", "M">>,
      <<"S", "M", "A", "R", "T">>,
      <<"C", "o", "i", "l", "s">>,
      <<"P", "I", "R", "S", "R">>,
      <<"S", "F", "L", "D">>>>

\* the value of a Result<(), _> that is Ok
UNIT == "()"

validate_source_expr(source_expr) ==
    IF source_expr.some
    THEN LET m == expr_matches(source_expr.v, SOURCE_NAMES) IN
         IF ~m.ok THEN m
         ELSE IF m.val THEN Ok(UNIT)
         ELSE Err("Invalid source expr. Please select from [...]")
    ELSE Ok(UNIT)

\* ------------------------------------------------------------------------
\* Bounds and inputs
\* ------------------------------------------------------------------------
\* longest expression text, in characters, of the exhaustive lexer inputs
MaxLen == 4

\* longest expression text, in tokens, of the exhaustive parser inputs
MaxTok == 5

\* deepest bracket nesting of the depth-guard inputs
MaxNest == 21

\* longest tag list an expression is evaluated on
MaxTags == 3

\* most lines the reader is given
MaxLines == 3

RECURSIVE join(_, _)
join(parts, sep) ==
    IF parts = <<>> THEN <<>>
    ELSE IF Len(parts) = 1 THEN parts[1]
    ELSE parts[1] \o sep \o join(Tail(parts), sep)

SeqsUpTo(S, n) == UNION {[1..k -> S] : k \in 0..n}

A == <<"a">>

B == <<"b">>

C == <<"c">>

Names == {A, B, C}

BinOps == {<<"&">>, <<"|">>, <<",">>}

LexChars == {"(", ")", "!", "&", "|", ",", " ", "a", "$", "2"}

\* every text of at most MaxLen characters
LexTexts == SeqsUpTo(LexChars, MaxLen)

Pieces == {<<"(">>, <<")">>, <<"!">>, <<"&">>, <<"|">>} \cup Names

\* every text of at most MaxTok tokens, written with one space between tokens
TokenTexts == {join(ps, <<" ">>) : ps \in SeqsUpTo(Pieces, MaxTok)}

\* `x op1 y op2 z`
ChainTexts ==
    {x \o o1 \o y \o o2 \o z : x \in Names, y \in Names, z \in Names,
                               o1 \in BinOps, o2 \in BinOps}

\* `!x op y`, without and with spaces
InvertTexts ==
    {<<"!">> \o x \o o \o y : x \in Names, y \in Names, o \in BinOps}
    \cup {<<"!">> \o x \o <<" ">> \o o \o <<" ">> \o y :
             x \in Names, y \in Names, o \in BinOps}

\* a single name, plain or with a count suffix, well-formed or not
CountSuffixes ==
    {<<>>, <<"$", "0">>, <<"$", "1">>, <<"$", "2">>, <<"$", "3">>, <<"$", "+", "2">>,
     <<"$", "1", "0">>, <<"$">>, <<"$", "x">>, <<"$", "-", "1">>, <<"$", "2", "x">>,
     <<"$", "$">>, <<"$", "2", "$", "2">>, <<"$", "2", "$">>}

LeafTexts == {n \o sfx : n \in Names, sfx \in CountSuffixes} \cup {<<"$", "2">>}

\* whitespace only
BlankTexts == SeqsUpTo({" ", "\t"}, MaxLen)

RECURSIVE repeat(_, _)
repeat(s, n) == IF n = 0 THEN <<>> ELSE s \o repeat(s, n - 1)

\* a name inside n matched bracket pairs
Nested(n, name) == repeat(<<"(">>, n) \o name \o repeat(<<")">>, n)

NestedTexts == {Nested(n, name) : n \in 0..MaxNest, name \in Names}

TagLists == SeqsUpTo(Names, MaxTags)

\* ------------------------------------------------------------------------
\* State
\* ------------------------------------------------------------------------
VARIABLES
    text,         \* the expression text given to Expr::from_string
    tokens,       \* what lex made of it
    expr,         \* the Result of Expr::from_string
    tags,         \* the tag list given to Expr::matches
    result,       \* the Result of Expr::matches
    pc,           \* start -> parsed -> matched (idle: no expression at work)
    reader,       \* the InterproGffReader as configured
    build,        \* debug (overflow checks) or release (wrapping)
    consumed,     \* the lines the loop of finish has read so far
    records_map,  \* the accumulator of finish
    status,       \* idle, reading, then ok / error / panic: how finish ended
    output,       \* the records finish returned
    unread        \* the lines of the input still ahead, where the whole file
                  \* is given (empty where the lines are drawn as they are read)

vars == <<text, tokens, expr, tags, result, pc,
          reader, build, consumed, records_map, status, output, unread>>

exprVars == <<text, tokens, expr, tags, result, pc>>

readerVars == <<reader, build, consumed, records_map, status, output, unread>>

\* ------------------------------------------------------------------------
\* The expression language at work
\* ------------------------------------------------------------------------
InitExpr(texts) ==
    /\ text \in texts
    /\ tokens = <<>>
    /\ expr = None
    /\ tags = <<>>
    /\ result = None
    /\ pc = "start"
    /\ reader = reader_new
    /\ build = "release"
    /\ consumed = <<>>
    /\ records_map = EmptyMap
    /\ status = "idle"
    /\ output = <<>>
    /\ unread = <<>>

\* Expr::from_string(text)
FromString ==
    /\ pc = "start"
    /\ tokens' = lex(text).val
    /\ expr' = from_string(text)
    /\ pc' = "parsed"
    /\ UNCHANGED <<text, tags, result>>
    /\ UNCHANGED readerVars

\* expr.matches(tg) on a parsed expression
Matches ==
    /\ pc = "parsed"
    /\ expr.ok
    /\ \E tg \in TagLists :
          /\ tags' = tg
          /\ result' = expr_matches(expr.val, tg)
    /\ pc' = "matched"
    /\ UNCHANGED <<text, tokens, expr>>
    /\ UNCHANGED readerVars

InitLex == InitExpr(LexTexts)

NextLex == FromString

SpecLex == InitLex /\ [][NextLex]_vars

InitParse ==
    InitExpr(TokenTexts \cup ChainTexts \cup InvertTexts \cup LeafTexts \cup BlankTexts)

NextParse == FromString \/ Matches

SpecParse == InitParse /\ [][NextParse]_vars

InitDepth == InitExpr(NestedTexts)

SpecDepth == InitDepth /\ [][NextLex]_vars

\* ------------------------------------------------------------------------
\* Properties of the expression language
\* ------------------------------------------------------------------------
IsName(t) == t.type = "Name"

IsBin(t) == t = And \/ t = Or

BinNode(op, l, r) == IF op = And THEN NodeAnd(l, r) ELSE NodeOr(l, r)

\* from_string has run on `a op1 b op2 c`
IsChain3 ==
    /\ pc # "start"
    /\ Len(tokens) = 5
    /\ IsName(tokens[1]) /\ IsBin(tokens[2]) /\ IsName(tokens[3])
    /\ IsBin(tokens[4]) /\ IsName(tokens[5])

\* C1 as stated: `a op1 b op2 c` parses to the left-associative tree
\* op2(op1(a, b), c); `a & b | c` matches [c] and `a | b & c` does not match [a].
C1_LeftAssociative ==
    IsChain3 =>
        /\ expr = Ok(HasNodes(BinNode(tokens[4],
                        BinNode(tokens[2], NodeName(tokens[1].text),
                                           NodeName(tokens[3].text)),
                        NodeName(tokens[5].text))))
        /\ (pc = "matched" /\ tokens[2] = And /\ tokens[4] = Or
                /\ tags = <<tokens[5].text>>) => result = Ok(TRUE)
        /\ (pc = "matched" /\ tokens[2] = Or /\ tokens[4] = And
                /\ tags = <<tokens[1].text>>) => result = Ok(FALSE)

\* C1 amended: `a op1 b op2 c` parses to the right-nested tree
\* op1(a, op2(b, c)); hence `a & b | c` does not match [c] when a differs
\* from c, and `a | b & c` matches [a].
C1_RightNested ==
    IsChain3 =>
        /\ expr = Ok(HasNodes(BinNode(tokens[2],
                        NodeName(tokens[1].text),
                        BinNode(tokens[4], NodeName(tokens[3].text),
                                           NodeName(tokens[5].text)))))
        /\ (pc = "matched" /\ tokens[2] = And /\ tokens[4] = Or
                /\ tags = <<tokens[5].text>> /\ tokens[1].text # tokens[5].text)
              => result = Ok(FALSE)
        /\ (pc = "matched" /\ tokens[2] = Or /\ tokens[4] = And
                /\ tags = <<tokens[1].text>>) => result = Ok(TRUE)

\* `a & b | c` was evaluated on [c] and did not match
C1_Witness ==
    /\ pc = "matched"
    /\ tokens = <<Name(A), And, Name(B), Or, Name(C)>>
    /\ tags = <<C>>
    /\ result = Ok(FALSE)

\* from_string has run on `!a op b`
IsInvertOp ==
    /\ pc # "start"
    /\ Len(tokens) = 4
    /\ tokens[1] = Invert /\ IsName(tokens[2]) /\ IsBin(tokens[3]) /\ IsName(tokens[4])

\* C2: `!a op b` parses to op(Invert(a), b): the negation covers the adjacent
\* name only.  For op = &, the expression matches a tag list iff the list
\* holds b and does not hold a (so [b] matches; [a, b], [a] and a list with
\* neither do not).
C2_InvertBindsName ==
    IsInvertOp =>
        /\ expr = Ok(HasNodes(BinNode(tokens[3],
                        NodeInvert(NodeName(tokens[2].text)),
                        NodeName(tokens[4].text))))
        /\ (pc = "matched" /\ tokens[3] = And) =>
              result = Ok((\E i \in 1..Len(tags) : tags[i] = tokens[4].text)
                          /\ ~(\E i \in 1..Len(tags) : tags[i] = tokens[2].text))

\* `!a & b` was evaluated on [b] and matched
C2_Witness ==
    /\ pc = "matched"
    /\ tokens = <<Invert, Name(A), And, Name(B)>>
    /\ tags = <<B>>
    /\ result = Ok(TRUE)

\* Reference reading of a count leaf, written from the claim.
DollarAt(s) == {i \in 1..Len(s) : s[i] = "$"}

IsDigit(c) == c \in {"0", "1", "2", "3", "4", "5", "6", "7", "8", "9"}

\* a non-negative integer numeral: decimal digits, with or without a `+` sign
IsNumeral(s) ==
    LET d == IF s # <<>> /\ s[1] = "+" THEN Tail(s) ELSE s IN
    d # <<>> /\ \A i \in 1..Len(d) : IsDigit(d[i])

RECURSIVE Pow10(_)
Pow10(n) == IF n = 0 THEN 1 ELSE 10 * Pow10(n - 1)

RECURSIVE PlaceSum(_, _)
PlaceSum(d, i) ==
    IF i > Len(d) THEN 0
    ELSE (CHOOSE v \in 0..9 : DigitValue[d[i]] = v) * Pow10(Len(d) - i) + PlaceSum(d, i + 1)

NumeralValue(s) == PlaceSum(IF s[1] = "+" THEN Tail(s) ELSE s, 1)

Occurrences(tg, name) == Cardinality({i \in 1..Len(tg) : tg[i] = name})

\* C3: a Name leaf evaluated on a tag list.  Without `$`: true iff the list
\* holds the exact string.  `text$N`: true iff the list holds exactly N
\* occurrences of text.  A part after `$` that is no non-negative integer, or
\* more than one `$`: an error, not a boolean.
C3_NameLeaf ==
    (pc = "matched" /\ expr.val # Empty /\ expr.val.root.node = "Name") =>
        LET t == expr.val.root.text
            at == DollarAt(t)
        IN  CASE at = {} -> result = Ok(\E i \in 1..Len(tags) : tags[i] = t)
              [] Cardinality(at) = 1 ->
                   LET k == CHOOSE i \in at : TRUE
                       name == SubSeq(t, 1, k - 1)
                       num == SubSeq(t, k + 1, Len(t))
                   IN  IF IsNumeral(num)
                       THEN result = Ok(Occurrences(tags, name) = NumeralValue(num))
                       ELSE ~result.ok
              [] OTHER -> ~result.ok

\* `a$2` was evaluated on a list with exactly two `a` and matched
C3_Witness ==
    /\ pc = "matched"
    /\ expr = Ok(HasNodes(NodeName(<<"a", "$", "2">>)))
    /\ tags = <<A, B, A>>
    /\ result = Ok(TRUE)

\* C4: a text that lexes to no tokens (empty, or whitespace only) is the empty
\* expression, and the empty expression matches every tag list.
C4_EmptyMatchesAll ==
    /\ (pc # "start" /\ \A i \in 1..Len(text) : is_whitespace(text[i]))
          => tokens = <<>>
    /\ (pc # "start" /\ tokens = <<>>) => expr = Ok(Empty)
    /\ (pc = "matched" /\ expr = Ok(Empty)) => result = Ok(TRUE)

\* a whitespace-only text was evaluated on a non-empty tag list and matched
C4_Witness ==
    /\ pc = "matched"
    /\ text = <<" ", "\t">>
    /\ expr = Ok(Empty)
    /\ tags = <<A, B>>
    /\ result = Ok(TRUE)

\* Reference tokenization, written from the claim: operator characters are
\* tokens of their own, whitespace separates, and every maximal run of other
\* characters is one Name.
RefOpChars == {"(", ")", "&", "!", "|", ","}

RefOpToken(c) ==
    CASE c = "(" -> OpenBracket
      [] c = ")" -> CloseBracket
      [] c = "&" -> And
      [] c = "!" -> Invert
      [] c \in {"|", ","} -> Or

InRun(c) == c \notin RefOpChars /\ ~is_whitespace(c)

\* the length of the maximal run of name characters that s starts with
RunLength(s) ==
    CHOOSE k \in 0..Len(s) :
        /\ \A i \in 1..k : InRun(s[i])
        /\ k < Len(s) => ~InRun(s[k + 1])

RECURSIVE RefLex(_)
RefLex(s) ==
    IF s = <<>> THEN <<>>
    ELSE IF is_whitespace(s[1]) THEN RefLex(Tail(s))
    ELSE IF s[1] \in RefOpChars THEN <<RefOpToken(s[1])>> \o RefLex(Tail(s))
    ELSE <<Name(SubSeq(s, 1, RunLength(s)))>>
            \o RefLex(SubSeq(s, RunLength(s) + 1, Len(s)))

\* the text with every `|` written as `,`
CommaForBar(s) == [i \in 1..Len(s) |-> IF s[i] = "|" THEN "," ELSE s[i]]

\* C5: lex never fails and returns the reference tokenization; no Name token
\* is empty; a text and the same text with `,` for `|` parse to the same
\* result, in particular `a | b` and `a , b` to the same tree.
C5_LexReference ==
    pc # "start" =>
        /\ lex(text).ok
        /\ tokens = RefLex(text)
        /\ \A i \in 1..Len(tokens) : IsName(tokens[i]) => tokens[i].text # <<>>
        /\ expr = from_string(CommaForBar(text))
        /\ (Len(tokens) = 3 /\ IsName(tokens[1]) /\ tokens[2] = Or /\ IsName(tokens[3]))
              => /\ expr.ok
                 /\ expr = from_string(tokens[1].text \o <<" ", ",", " ">> \o tokens[3].text)
                 /\ expr = from_string(tokens[1].text \o <<" ", "|", " ">> \o tokens[3].text)

\* `aa|2` was lexed: a name closed by an operator, and a name flushed at the end
C5_Witness ==
    /\ pc = "parsed"
    /\ text = <<"a", "a", "|", "2">>
    /\ tokens = <<Name(<<"a", "a">>), Or, Name(<<"2">>)>>
    /\ expr = Ok(HasNodes(NodeOr(NodeName(<<"a", "a">>), NodeName(<<"2">>))))

\* The adjacencies C6 lists, on a token sequence.
StartsWithBin(toks) == toks # <<>> /\ IsBin(toks[1])

EndsWithBin(toks) == toks # <<>> /\ IsBin(toks[Len(toks)])

BinAfterBad(toks) ==
    \E i \in 1..(Len(toks) - 1) :
        IsBin(toks[i + 1]) /\ (IsBin(toks[i]) \/ toks[i] = Invert \/ toks[i] = OpenBracket)

OperandAfterOperand(toks) ==
    \E i \in 1..(Len(toks) - 1) :
        /\ IsName(toks[i]) \/ toks[i] = CloseBracket
        /\ IsName(toks[i + 1]) \/ toks[i + 1] = OpenBracket \/ toks[i + 1] = Invert

BadAfterInvert(toks) ==
    \E i \in 1..Len(toks) :
        /\ toks[i] = Invert
        /\ i = Len(toks) \/ toks[i + 1] = Invert \/ toks[i + 1] = CloseBracket

EmptyBrackets(toks) ==
    \E i \in 1..(Len(toks) - 1) : toks[i] = OpenBracket /\ toks[i + 1] = CloseBracket

CountOf(toks, t, n) == Cardinality({i \in 1..n : toks[i] = t})

\* a `)` that closes nothing: what is left over after a complete expression
StrayClose(toks) ==
    \E n \in 1..Len(toks) : CountOf(toks, CloseBracket, n) > CountOf(toks, OpenBracket, n)

IllegalAdjacency(toks) ==
    \/ StartsWithBin(toks)
    \/ EndsWithBin(toks)
    \/ BinAfterBad(toks)
    \/ OperandAfterOperand(toks)
    \/ BadAfterInvert(toks)
    \/ EmptyBrackets(toks)
    \/ StrayClose(toks)

\* C6: from_string returns an error, never a tree, for every token sequence
\* with an illegal adjacency or with tokens left over after one expression.
C6_IllegalAdjacencyFails ==
    (pc # "start" /\ IllegalAdjacency(tokens)) => ~expr.ok

\* `(a))` was parsed: the tokens left over are reported
C6_Witness ==
    /\ pc = "parsed"
    /\ tokens = <<OpenBracket, Name(A), CloseBracket, CloseBracket>>
    /\ expr = Err("expected EOF, found extra tokens")

\* the number of `(` still open at the end of the sequence
RECURSIVE OpenAtEnd(_, _)
OpenAtEnd(toks, open) ==
    IF toks = <<>> THEN open
    ELSE IF Head(toks) = OpenBracket THEN OpenAtEnd(Tail(toks), open + 1)
    ELSE IF Head(toks) = CloseBracket /\ open > 0 THEN OpenAtEnd(Tail(toks), open - 1)
    ELSE OpenAtEnd(Tail(toks), open)

\* C7 as stated: from_string fails for every token sequence in which some `(`
\* has no matching `)`.
C7_UnmatchedOpenFails ==
    (pc # "start" /\ OpenAtEnd(tokens, 0) > 0) => ~expr.ok

\* the number of `(` the text starts with
RECURSIVE LeadingOpens(_)
LeadingOpens(s) ==
    IF s # <<>> /\ Head(s) = "(" THEN 1 + LeadingOpens(Tail(s)) ELSE 0

\* C8: a name inside n matched bracket pairs parses to that name for n <= 19
\* and fails with "Expression too deep" for n >= 20.
C8_DepthGuard ==
    \A name \in Names :
        LET n == LeadingOpens(text) IN
        (pc # "start" /\ text = Nested(n, name)) =>
            IF n <= 19 THEN expr = Ok(HasNodes(NodeName(name)))
            ELSE expr = Err("Expression too deep")

\* 19 pairs parsed; the witness of the failure is 20 pairs, the first too deep
C8_Witness ==
    /\ pc = "parsed"
    /\ text = Nested(20, A)
    /\ expr = Err("Expression too deep")

\* ------------------------------------------------------------------------
\* The reader at work: the files it is given
\* ------------------------------------------------------------------------
G1 == <<"g", "1">>

G2 == <<"g", "2">>

DOT == <<".">>

PFAM == <<"P", "f", "a", "m">>

CDD == <<"C", "D", "D">>

X == <<"X">>

Y == <<"Y">>

Z == <<"Z">>

\* no such attribute on the line
Absent == <<>>

\* what a line of the file says: its identifier, source, span and attributes
Row(id, source, start, end, name, desc) ==
    [id |-> id, source |-> source, start |-> start, end |-> end,
     name |-> name, desc |-> desc]

DigitChar == <<"0", "1", "2", "3", "4", "5", "6", "7", "8", "9">>

RECURSIVE Decimal(_)
Decimal(n) ==
    IF n < 10 THEN <<DigitChar[n + 1]>>
    ELSE Append(Decimal(n \div 10), DigitChar[(n % 10) + 1])

AttrText(row) ==
    LET parts == (IF row.name = Absent THEN <<>> ELSE <<ATTR_NAME \o <<"=">> \o row.name>>)
                 \o (IF row.desc = Absent THEN <<>> ELSE <<ATTR_DESC \o <<"=">> \o row.desc>>)
    IN  IF parts = <<>> THEN <<"I", "D", "=", "1">> ELSE join(parts, <<";">>)

\* a line given as its text
RawLine(chars) == [raw |-> chars]

\* the text of the line: as given, or nine tab-separated columns
LineText(row) ==
    IF "raw" \in DOMAIN row THEN row.raw
    ELSE join(<<row.id, row.source, DOT, Decimal(row.start), Decimal(row.end),
                DOT, DOT, DOT, AttrText(row)>>, <<"\t">>)

IsParentRow(row) == row.source = DOT

\* gene g1 twice with different spans, gene g2 once well-formed and once with
\* end < start, and domain lines for both
GroupRows ==
    {Row(G1, DOT, 10, 20, Absent, Absent),
     Row(G1, DOT, 1, 30, Absent, Absent),
     Row(G2, DOT, 5, 9, Absent, Absent),
     Row(G2, DOT, 9, 5, Absent, Absent),
     Row(G1, PFAM, 12, 15, X, Y),
     Row(G1, CDD, 3, 8, Z, Absent),
     Row(G2, PFAM, 6, 7, X, Absent)}

\* main: Expr::from_string(&s).expect(...) on an option that was given
ExprOf(s) == Some(from_string(s).val)

LengthBounds ==
    {<<None, None>>, <<Some(11), Some(11)>>, <<Some(20), None>>, <<None, Some(5)>>}

GroupFilters == {<<None, None>>, <<ExprOf(X), ExprOf(PFAM)>>}

\* the readers main can build for the grouping runs
GroupReaders ==
    {[reader_new EXCEPT !.id_expr = ie, !.min_length = lb[1], !.max_length = lb[2],
                        !.domain_expr = f[1], !.source_expr = f[2]] :
        ie \in {None, ExprOf(G1)}, lb \in LengthBounds, f \in GroupFilters}

InitReader(readers) ==
    /\ text = <<>>
    /\ tokens = <<>>
    /\ expr = None
    /\ tags = <<>>
    /\ result = None
    /\ pc = "idle"
    /\ reader \in readers
    /\ build \in {"debug", "release"}
    /\ consumed = <<>>
    /\ records_map = EmptyMap
    /\ status = "reading"
    /\ output = <<>>
    /\ unread = <<>>

\* The end of the loop of finish (a sentinel line, or the end of the input):
\* the post-pass runs and finish returns.
Collect ==
    IF collect_panics(reader, records_map)
    THEN status' = "panic" /\ output' = <<>>
    ELSE /\ status' = "ok"
         /\ \E order \in Orders(records_map) :
                output' = collect_records(reader, records_map, order)

\* The loop of finish reads the next line of the input.
ReadLine(row) ==
    /\ status = "reading"
    /\ Len(consumed) < MaxLines
    /\ consumed' = Append(consumed, row)
    /\ LET st == finish_step(reader, records_map, LineText(row), build = "debug") IN
       /\ records_map' = st.map
       /\ CASE st.ctl = "continue" -> UNCHANGED <<status, output>>
            [] st.ctl = "break" -> Collect
            [] st.ctl = "error" -> status' = "error" /\ output' = <<>>
            [] st.ctl = "panic" -> status' = "panic" /\ output' = <<>>
    /\ UNCHANGED <<reader, build>>
    /\ UNCHANGED exprVars

\* The input ends: the loop of finish is over.
EndOfInput ==
    /\ status = "reading"
    /\ unread = <<>>
    /\ Collect
    /\ UNCHANGED <<reader, build, consumed, records_map, unread>>
    /\ UNCHANGED exprVars

Init == InitReader(GroupReaders)

ReadGroupLine == UNCHANGED unread /\ \E row \in GroupRows : ReadLine(row)

Next == ReadGroupLine \/ EndOfInput

Spec == Init /\ [][Next]_vars

\* ------------------------------------------------------------------------
\* Properties of the grouping pass
\* ------------------------------------------------------------------------
Min(S) == CHOOSE m \in S : \A n \in S : m <= n

\* the identifier of the row satisfies the identifier expression, if any
RowIdPasses(row) ==
    reader.id_expr.some => expr_matches(reader.id_expr.v, <<row.id>>) = Ok(TRUE)

\* end - start + 1 in u64: below zero stands for a value wrapped around 2^64,
\* which is above every bound
RowLength(row) == row.end - row.start + 1

RowInBounds(row) ==
    /\ reader.max_length.some =>
          (RowLength(row) >= 0 /\ RowLength(row) <= reader.max_length.v)
    /\ reader.min_length.some =>
          (RowLength(row) < 0 \/ RowLength(row) >= reader.min_length.v)

\* the parent-marker lines of k read so far
ParentLines(k) ==
    {i \in 1..Len(consumed) : IsParentRow(consumed[i]) /\ consumed[i].id = k}

\* those of them that pass the identifier filter and the length bounds: the
\* first one is the line that is inserted into the accumulator
AcceptedParentLines(k) ==
    {i \in ParentLines(k) : RowIdPasses(consumed[i]) /\ RowInBounds(consumed[i])}

\* the child record a domain line stands for
ChildOf(row) ==
    [source |-> row.source, start |-> row.start, end |-> row.end,
     domain_name |-> IF row.name = Absent THEN NO_NAME ELSE row.name,
     domain_desc |-> IF row.desc = Absent THEN NO_DESCRIPTION ELSE row.desc]

\* the children of k on the lines after line p, in input order
RECURSIVE ChildrenAfter(_, _)
ChildrenAfter(k, p) ==
    IF p >= Len(consumed) THEN <<>>
    ELSE (IF consumed[p + 1].id = k /\ ~IsParentRow(consumed[p + 1])
          THEN <<ChildOf(consumed[p + 1])>> ELSE <<>>) \o ChildrenAfter(k, p + 1)

SeenIds == {consumed[i].id : i \in 1..Len(consumed)}

\* C9: while the pass runs and when it has ended normally, the accumulator
\* holds a record for k iff a parent-marker line of k was inserted, and its
\* children are exactly the child lines of k after that line, in input order:
\* earlier child lines and child lines of a k never inserted are dropped, and
\* later parent-marker lines of k change nothing.
C9_Grouping ==
    status \in {"reading", "ok"} =>
        /\ DOMAIN records_map \subseteq SeenIds
        /\ \A k \in SeenIds :
              IF AcceptedParentLines(k) = {}
              THEN k \notin DOMAIN records_map
              ELSE /\ k \in DOMAIN records_map
                   /\ records_map[k].id = k
                   /\ records_map[k].domains = ChildrenAfter(k, Min(AcceptedParentLines(k)))

\* a child line before the parent line was dropped, the one after it is kept
C9_Witness ==
    /\ status = "reading"
    /\ consumed = <<Row(G1, PFAM, 12, 15, X, Y), Row(G1, DOT, 10, 20, Absent, Absent),
                    Row(G1, CDD, 3, 8, Z, Absent)>>
    /\ DOMAIN records_map = {G1}
    /\ records_map[G1].domains = <<DomainRecord(CDD, 3, 8, Z, NO_DESCRIPTION)>>

\* C10 as stated: under any configuration, the length of a returned record is
\* end - start + 1 of the first parent-marker line seen for its identifier
\* (stated here for inputs whose spans all have start <= end).
C10_FirstParentSeen ==
    (status = "ok" /\ \A j \in 1..Len(consumed) : consumed[j].start <= consumed[j].end) =>
        \A i \in 1..Len(output) :
            /\ ParentLines(output[i].id) # {}
            /\ output[i].length = RowLength(consumed[Min(ParentLines(output[i].id))])

\* C10 amended: the length of a returned record is end - start + 1 (in u64)
\* of the first parent-marker line of its identifier that passed the
\* identifier filter and the length bounds; later lines never change it.
C10_FirstAcceptedParent ==
    status = "ok" =>
        \A i \in 1..Len(output) :
            /\ AcceptedParentLines(output[i].id) # {}
            /\ output[i].length =
                  RowLength(consumed[Min(AcceptedParentLines(output[i].id))])

\* min-length 20: the first parent line of g1 (length 11) was passed over, the
\* second (length 30) gave the record its length, the third changed nothing
C10_Witness ==
    /\ status = "ok"
    /\ reader.min_length = Some(20)
    /\ consumed = <<Row(G1, DOT, 10, 20, Absent, Absent), Row(G1, DOT, 1, 30, Absent, Absent),
                    Row(G1, DOT, 10, 20, Absent, Absent)>>
    /\ Len(output) = 1
    /\ output[1].id = G1
    /\ output[1].length = 30

\* a length (u64, below zero standing for a wrapped value) is within the
\* configured bounds, both inclusive
LengthInBounds(len) ==
    /\ reader.max_length.some => (len >= 0 /\ len <= reader.max_length.v)
    /\ reader.min_length.some => (len < 0 \/ len >= reader.min_length.v)

\* the line the loop has just read in this step
JustRead == consumed'[Len(consumed')]

ReadsALine == status = "reading" /\ Len(consumed') = Len(consumed) + 1

\* what holds of the accumulator and of the result under the length bounds
C11_BoundsState ==
    /\ status # "error"
    /\ status = "panic" =>
          (build = "debug" /\ \E j \in 1..Len(consumed) : consumed[j].end < consumed[j].start)
    /\ status \in {"reading", "ok"} =>
          /\ \A k \in DOMAIN records_map : LengthInBounds(records_map[k].length)
          /\ \A j \in 1..Len(consumed) :
                (IsParentRow(consumed[j]) /\ RowIdPasses(consumed[j])
                     /\ LengthInBounds(RowLength(consumed[j])))
                  => consumed[j].id \in DOMAIN records_map
    /\ status = "ok" => \A i \in 1..Len(output) : LengthInBounds(output[i].length)

\* what a parent-marker line with a length outside the bounds does
C11_BoundsStep ==
    (ReadsALine /\ IsParentRow(JustRead) /\ ~LengthInBounds(RowLength(JustRead))) =>
        /\ records_map' = records_map
        /\ status' # "error"
        /\ status' = "panic" => (build = "debug" /\ JustRead.end < JustRead.start)

\* C11: the length bounds are inclusive and applied when a parent is created.
\* A parent-marker line whose length is below the minimum or above the maximum
\* leaves the accumulator as it was; one whose length equals a bound (or lies
\* between them) and whose identifier passes is in the accumulator; every
\* record of the accumulator and every returned record has min <= length <= max
\* for each configured bound; and a bound never makes finish return an error.
C11_LengthBounds == [](C11_BoundsState) /\ [][C11_BoundsStep]_vars

\* bounds 11..11: the parent of length 30 was passed over, the one of length
\* 11 (equal to both bounds) is returned
C11_Witness ==
    /\ status = "ok"
    /\ reader.min_length = Some(11) /\ reader.max_length = Some(11)
    /\ consumed = <<Row(G1, DOT, 1, 30, Absent, Absent), Row(G1, DOT, 10, 20, Absent, Absent)>>
    /\ Len(output) = 1
    /\ output[1].length = 11

C12_IdState ==
    /\ status \in {"reading", "ok"} => \A k \in DOMAIN records_map :
          reader.id_expr.some => expr_matches(reader.id_expr.v, <<k>>) = Ok(TRUE)
    /\ status = "ok" => \A i \in 1..Len(output) :
          reader.id_expr.some => expr_matches(reader.id_expr.v, <<output[i].id>>) = Ok(TRUE)

C12_IdStep ==
    (ReadsALine /\ reader.id_expr.some
        /\ expr_matches(reader.id_expr.v, <<JustRead.id>>) = Ok(FALSE)) =>
        /\ records_map' = records_map
        /\ status' = "reading"

\* C12: with an identifier expression configured, a line (parent-marker or
\* child) whose identifier does not satisfy the expression on the tag list
\* [identifier] leaves the accumulator unchanged and the pass running; every
\* key of the accumulator and every returned id satisfies the expression.
C12_IdFilter == [](C12_IdState) /\ [][C12_IdStep]_vars

\* identifier expression `g1`: the parent and the child of g2 were skipped,
\* g1 alone is returned
C12_Witness ==
    /\ status = "ok"
    /\ reader.id_expr = ExprOf(G1)
    /\ consumed = <<Row(G2, DOT, 5, 9, Absent, Absent), Row(G2, PFAM, 6, 7, X, Absent),
                    Row(G1, DOT, 1, 30, Absent, Absent)>>
    /\ reader.min_length = None /\ reader.max_length = None
    /\ Len(output) = 1
    /\ output[1].id = G1

\* ------------------------------------------------------------------------
\* The reader at work: the post-pass filters
\* ------------------------------------------------------------------------
\* two genes; children of g1 whose source and Name disagree about `Pfam`
FilterRows ==
    {Row(G1, DOT, 10, 20, Absent, Absent),
     Row(G2, DOT, 5, 9, Absent, Absent),
     Row(G1, PFAM, 12, 15, X, Y),
     Row(G1, CDD, 3, 8, PFAM, Absent),
     Row(G1, CDD, 4, 9, X, Absent),
     Row(G2, PFAM, 6, 7, X, Absent)}

\* `X$2`
X2 == <<"X", "$", "2">>

\* `!X`
NotX == <<"!", "X">>

\* `!Pfam`
NotPfam == <<"!">> \o PFAM

\* a leaf with a count that is no number: `X$y`, `Pfam$y`, `g1$y`
XBad == <<"X", "$", "y">>

PfamBad == PFAM \o <<"$", "y">>

G1Bad == G1 \o <<"$", "y">>

DomainExprs == {None, ExprOf(PFAM), ExprOf(X2), ExprOf(NotX), ExprOf(XBad)}

SourceExprs == {None, ExprOf(PFAM), ExprOf(NotPfam), ExprOf(PfamBad)}

\* the readers main can build for the filter runs: every pair of a domain and
\* a source expression, and an identifier expression that cannot be evaluated
FilterReaders ==
    {[reader_new EXCEPT !.domain_expr = de, !.source_expr = se] :
        de \in DomainExprs, se \in SourceExprs}
    \cup {[reader_new EXCEPT !.id_expr = ExprOf(G1Bad)]}

InitFilter == InitReader(FilterReaders) /\ build = "release"

ReadFilterLine == UNCHANGED unread /\ \E row \in FilterRows : ReadLine(row)

NextFilter == ReadFilterLine \/ EndOfInput

SpecFilter == InitFilter /\ [][NextFilter]_vars

\* ------------------------------------------------------------------------
\* Properties of the post-pass filters
\* ------------------------------------------------------------------------
OutputIds == {output[i].id : i \in 1..Len(output)}

\* finish returned, with `Pfam` as the domain expression and no other filter
OnlyDomainPfam ==
    /\ status = "ok"
    /\ reader = [reader_new EXCEPT !.domain_expr = ExprOf(PFAM)]

\* C13 as stated: with the domain expression `Pfam` and no other filter, a
\* parent with a child whose source is `Pfam` is returned, and a parent all of
\* whose children have another source is not.
C13_DomainBySource ==
    OnlyDomainPfam =>
        \A k \in DOMAIN records_map :
            LET ds == records_map[k].domains IN
            /\ (\E i \in 1..Len(ds) : ds[i].source = PFAM) => k \in OutputIds
            /\ (\A i \in 1..Len(ds) : ds[i].source # PFAM) => k \notin OutputIds

\* C13 amended: with the domain expression `Pfam` and no other filter, a
\* parent is returned iff it has a child whose Name attribute is `Pfam`,
\* whatever the sources of its children.
C13_DomainByName ==
    OnlyDomainPfam =>
        \A k \in DOMAIN records_map :
            LET ds == records_map[k].domains IN
            k \in OutputIds <=> \E i \in 1..Len(ds) : ds[i].domain_name = PFAM

\* g1 has one child, of source CDD and named `Pfam`, and is returned; g2 has
\* none and is not
C13_Witness ==
    /\ OnlyDomainPfam
    /\ consumed = <<Row(G1, DOT, 10, 20, Absent, Absent), Row(G2, DOT, 5, 9, Absent, Absent),
                    Row(G1, CDD, 3, 8, PFAM, Absent)>>
    /\ OutputIds = {G1}

\* how many of the children carry the name
NamedCount(ds, name) == Cardinality({i \in 1..Len(ds) : ds[i].domain_name = name})

\* what the configured domain expression says of a list of children, read off
\* the text of the expression; an expression that cannot be evaluated is never
\* true
DomainSays(ds) ==
    CASE reader.domain_expr = None -> TRUE
      [] reader.domain_expr = ExprOf(PFAM) -> NamedCount(ds, PFAM) >= 1
      [] reader.domain_expr = ExprOf(X2) -> NamedCount(ds, X) = 2
      [] reader.domain_expr = ExprOf(NotX) -> NamedCount(ds, X) = 0
      [] reader.domain_expr = ExprOf(XBad) -> FALSE

\* C14: the parents finish returns are exactly the accumulated parents whose
\* domain expression is true of the Name attributes of all their children, one
\* entry per child with duplicates counted (`X$2`: two children named X), the
\* children the source expression prunes included and a parent without
\* children judged on the empty list.
C14_DomainOnAllNames ==
    status = "ok" =>
        /\ OutputIds = {k \in DOMAIN records_map : DomainSays(records_map[k].domains)}
        /\ Len(output) = Cardinality(OutputIds)

\* domain and source expression both `Pfam`: the only child of g1 is named
\* `Pfam` but comes from CDD, so g1 is returned, without children
C14_Witness ==
    /\ status = "ok"
    /\ reader.domain_expr = ExprOf(PFAM) /\ reader.source_expr = ExprOf(PFAM)
    /\ consumed = <<Row(G1, DOT, 10, 20, Absent, Absent), Row(G1, CDD, 3, 8, PFAM, Absent)>>
    /\ output = <<GeneRecord(G1, 11, <<>>)>>

\* what the configured source expression says of a child, read off the text
\* of the expression
SourceSays(d) ==
    CASE reader.source_expr = None -> TRUE
      [] reader.source_expr = ExprOf(PFAM) -> d.source = PFAM
      [] reader.source_expr = ExprOf(NotPfam) -> d.source # PFAM
      [] reader.source_expr = ExprOf(PfamBad) -> FALSE

\* C15: every returned record is an accumulated parent that passed the domain
\* expression, with the same id and length and with exactly its children whose
\* source satisfies the source expression on [source], in their order; with
\* no source expression it is the accumulated parent unchanged.  A parent all
\* of whose children are pruned is still returned.
C15_SourcePrune ==
    status = "ok" =>
        /\ \A i \in 1..Len(output) :
              /\ output[i].id \in DOMAIN records_map
              /\ LET g == records_map[output[i].id] IN
                 /\ output[i].length = g.length
                 /\ output[i].domains = SelectSeq(g.domains, SourceSays)
                 /\ reader.source_expr = None => output[i] = g
        /\ \A k \in DOMAIN records_map : DomainSays(records_map[k].domains) => k \in OutputIds

\* source expression `Pfam`: the CDD child of g1 is pruned, the Pfam child stays
C15_Witness ==
    /\ status = "ok"
    /\ reader.source_expr = ExprOf(PFAM) /\ reader.domain_expr = None
    /\ consumed = <<Row(G1, DOT, 10, 20, Absent, Absent), Row(G1, CDD, 4, 9, X, Absent),
                    Row(G1, PFAM, 12, 15, X, Y)>>
    /\ output = <<GeneRecord(G1, 11, <<DomainRecord(PFAM, 12, 15, X, Y)>>)>>

\* the identifier expression cannot be evaluated and a line reached it
IdEvalError == reader.id_expr = ExprOf(G1Bad) /\ consumed # <<>>

\* the domain expression cannot be evaluated and a parent was accumulated for
\* it to be evaluated on
DomainEvalError == reader.domain_expr = ExprOf(XBad) /\ DOMAIN records_map # {}

\* the source expression cannot be evaluated and a parent that passed the
\* domain expression has a child for it to be evaluated on
SourceEvalError ==
    /\ reader.source_expr = ExprOf(PfamBad)
    /\ \E k \in DOMAIN records_map :
          DomainSays(records_map[k].domains) /\ records_map[k].domains # <<>>

\* C18 as stated: when the identifier, the domain or the source expression
\* fails to evaluate for some line or record, finish returns an error and no
\* record set.
C18_EvalErrorFatal ==
    (status # "reading" /\ (IdEvalError \/ DomainEvalError \/ SourceEvalError)) =>
        (status = "error" /\ output = <<>>)

\* ------------------------------------------------------------------------
\* The reader at work: whole files, with lines that are no records
\* ------------------------------------------------------------------------
TAB == <<"\t">>

\* the default sentinel line
Sentinel == RawLine(FINISH_LINE)

\* a line that begins with the sentinel text and goes on
SentinelThenText == RawLine(FINISH_LINE \o <<">", "s">>)

\* a comment line
CommentLine == RawLine(<<"#", "c">>)

\* a line of one character
OneCharLine == RawLine(<<"x">>)

\* eight fields
ShortLine == RawLine(join(<<G1, DOT, DOT, <<"1">>, <<"2">>, DOT, DOT, DOT>>, TAB))

\* nine fields, the start field no number; the identifier is g2
BadStartLine ==
    RawLine(join(<<G2, DOT, DOT, <<"x">>, <<"9">>, DOT, DOT, DOT, <<"I", "D", "=", "1">>>>, TAB))

\* a tab, then the nine fields of the parent-marker line of g2
LeadingTabLine == RawLine(TAB \o LineText(Row(G2, DOT, 5, 9, Absent, Absent)))

EmptyLine == RawLine(<<>>)

FileLines ==
    {Row(G1, DOT, 10, 20, Absent, Absent), Row(G1, PFAM, 12, 15, X, Y),
     Row(G2, DOT, 5, 9, Absent, Absent),
     Sentinel, SentinelThenText, CommentLine, OneCharLine, ShortLine, BadStartLine, LeadingTabLine, EmptyLine}

Files == SeqsUpTo(FileLines, MaxLines)

FileReaders == {[reader_new EXCEPT !.id_expr = ie] : ie \in {None, ExprOf(G1)}}

InitFile ==
    /\ text = <<>>
    /\ tokens = <<>>
    /\ expr = None
    /\ tags = <<>>
    /\ result = None
    /\ pc = "idle"
    /\ reader \in FileReaders
    /\ build = "release"
    /\ consumed = <<>>
    /\ records_map = EmptyMap
    /\ status = "reading"
    /\ output = <<>>
    /\ unread \in Files

\* The loop of finish reads the next line of the file.
ReadFileLine ==
    /\ unread # <<>>
    /\ ReadLine(Head(unread))
    /\ unread' = Tail(unread)

NextFile == ReadFileLine \/ EndOfInput

SpecFile == InitFile /\ [][NextFile]_vars

\* ------------------------------------------------------------------------
\* Properties of the line loop on whole files
\* ------------------------------------------------------------------------
\* the line begins with the sentinel text
IsSentinelLine(line) ==
    /\ Len(line) >= Len(FINISH_LINE)
    /\ \A i \in 1..Len(FINISH_LINE) : line[i] = FINISH_LINE[i]

\* a sentinel line is the last line read, and what finish returns then is
\* what was accumulated before it
C16_SentinelState ==
    \A j \in 1..Len(consumed) :
        IsSentinelLine(LineText(consumed[j])) =>
            /\ j = Len(consumed)
            /\ status = "ok"
            /\ OutputIds = DOMAIN records_map
            /\ Len(output) = Cardinality(DOMAIN records_map)
            /\ \A i \in 1..Len(output) : output[i] = records_map[output[i].id]

C16_SentinelStep ==
    /\ (ReadsALine /\ IsSentinelLine(LineText(JustRead))) =>
          (records_map' = records_map /\ status' = "ok" /\ unread' = Tail(unread))
    /\ status # "reading" => UNCHANGED <<status, output, records_map, consumed, unread>>

\* C16: finish stops at the first line that begins with the sentinel text.
\* The sentinel line itself leaves the accumulator as it was and ends the
\* pass normally, although it begins with the comment character; what finish
\* returns is what was accumulated before it; the lines behind it, a
\* parent-marker, a child or a malformed line alike, are never read and change
\* neither the result nor the outcome.
C16_SentinelStops == [](C16_SentinelState) /\ [][C16_SentinelStep]_vars

\* g1, then the sentinel, then a line of eight fields: g1 is returned and the
\* malformed line was never read
C16_Witness ==
    /\ status = "ok"
    /\ consumed = <<Row(G1, DOT, 10, 20, Absent, Absent), Sentinel>>
    /\ unread = <<ShortLine>>
    /\ output = <<GeneRecord(G1, 11, <<>>)>>

\* a comment line or a line of length exactly 1
IsSkippedLine(line) == (line # <<>> /\ line[1] = reader.comment) \/ Len(line) = 1

\* the line does not split into exactly 9 tab-separated fields, or its 4th or
\* 5th field is no unsigned integer
IsMalformed(line) ==
    LET fields == split(line, "\t") IN
    \/ Cardinality({i \in 1..Len(line) : line[i] = "\t"}) # 8
    \/ ~IsNumeral(fields[4])
    \/ ~IsNumeral(fields[5])

\* line j of the file was read by the parser of lines
WasParsed(j) ==
    ~IsSentinelLine(LineText(consumed[j])) /\ ~IsSkippedLine(LineText(consumed[j]))

C17_SkipStep ==
    (ReadsALine /\ ~IsSentinelLine(LineText(JustRead)) /\ IsSkippedLine(LineText(JustRead))) =>
        (status' = "reading" /\ records_map' = records_map)

\* C17 as stated: a line before the sentinel that is no comment line, is not
\* of length 1 and does not split into exactly 9 tab-separated fields, or has
\* a 4th or 5th field that is no unsigned integer, makes finish return an
\* error and no records.
C17_MalformedFatal ==
    \A j \in 1..Len(consumed) :
        (WasParsed(j) /\ IsMalformed(LineText(consumed[j]))) =>
            (j = Len(consumed) /\ status = "error" /\ output = <<>>)

C17_TrimmedState ==
    \A j \in 1..Len(consumed) :
        (WasParsed(j) /\ IsMalformed(trim(LineText(consumed[j])))) =>
            (j = Len(consumed) /\ status = "error" /\ output = <<>>)

\* C17 amended: the fields are those of the line with its leading and
\* trailing whitespace trimmed.  When the loop reaches a line that is no
\* comment line, is not of length 1 and, once trimmed, does not split into
\* exactly 9 tab-separated fields or has a 4th or 5th field that is no
\* unsigned integer, finish returns an error there and no records, whatever
\* was accumulated and whatever the identifier expression says of the line;
\* comment lines and lines of length 1 are skipped without an error.
C17_TrimmedMalformedFatal == [](C17_TrimmedState) /\ [][C17_SkipStep]_vars

\* identifier expression `g1`: g1 was accumulated, then a line of g2 whose
\* start field is no number ended the pass with an error
C17_Witness ==
    /\ status = "error"
    /\ reader.id_expr = ExprOf(G1)
    /\ consumed = <<Row(G1, DOT, 10, 20, Absent, Absent), BadStartLine>>
    /\ DOMAIN records_map = {G1}
    /\ output = <<>>

\* ------------------------------------------------------------------------
\* main: the source expression is parsed and validated before the read
\* ------------------------------------------------------------------------
\* longest source expression, in tokens, given to validate_source_expr
MaxSrcTok == 3

\* a name that is no source name
ZZZ == <<"Z", "z", "z">>

SourcePieces == {<<"(">>, <<")">>, <<"!">>, <<"&">>, <<"|">>, PFAM, CDD, ZZZ}

\* every text of at most MaxSrcTok tokens, and leaves with a count
SourceTexts ==
    {join(ps, <<" ">>) : ps \in SeqsUpTo(SourcePieces, MaxSrcTok)}
    \cup {PFAM \o <<"$", "1">>, PFAM \o <<"$", "2">>, PfamBad}

InitValidate == InitExpr(SourceTexts)

\* utils::validate_source_expr(&source_expr) on the parsed option
Validate ==
    /\ pc = "parsed"
    /\ expr.ok
    /\ tags' = SOURCE_NAMES
    /\ result' = validate_source_expr(Some(expr.val))
    /\ pc' = "validated"
    /\ UNCHANGED <<text, tokens, expr>>
    /\ UNCHANGED readerVars

\* the option is not on the command line: main validates None
ValidateAbsent ==
    /\ pc = "start"
    /\ text = <<>>
    /\ result' = validate_source_expr(None)
    /\ pc' = "validated"
    /\ UNCHANGED <<text, tokens, expr, tags>>
    /\ UNCHANGED readerVars

NextValidate == FromString \/ Validate \/ ValidateAbsent

SpecValidate == InitValidate /\ [][NextValidate]_vars

\* the expression is true on [s] for some recognized source name s
MatchesSomeSource ==
    \E i \in 1..Len(SOURCE_NAMES) : expr_matches(expr.val, <<SOURCE_NAMES[i]>>) = Ok(TRUE)

\* C19 as stated: validate_source_expr accepts an absent expression, and
\* accepts a supplied one exactly when it is true on [s] for at least one of
\* the 15 recognized source names s (so it accepts `!Pfam`).
C19_RejectsIffUnmatchable ==
    pc = "validated" =>
        (result.ok <=> (expr = None \/ MatchesSomeSource))

\* ------------------------------------------------------------------------
\* Negation before a bracketed group
\* ------------------------------------------------------------------------
\* what stands after the operator: a name or `x op y`
Rests == Names \cup {x \o o \o y : x \in Names, y \in Names, o \in BinOps}

\* `!n op R` and `!(n) op R`
NegationTexts ==
    {<<"!">> \o n \o o \o r : n \in Names, o \in BinOps, r \in Rests}
    \cup {<<"!", "(">> \o n \o <<")">> \o o \o r : n \in Names, o \in BinOps, r \in Rests}

InitNegation == InitExpr(NegationTexts)

SpecNegation == InitNegation /\ [][NextParse]_vars

\* op(Negate(Name n), R), R as it parses alone
NegatedThenRest(n, op, rest) ==
    Ok(HasNodes(BinNode(op, NodeInvert(NodeName(n)), from_tokens(rest).val.root)))

\* C20 as stated: `!n op R` and `!(n) op R` both parse to the tree
\* op(Negate(Name n), R): the negation before a bracketed group covers the
\* group only.
C20_NegationCoversGroup ==
    pc # "start" =>
        IF tokens[2] = OpenBracket
        THEN expr = NegatedThenRest(tokens[3].text, tokens[5], SubSeq(tokens, 6, Len(tokens)))
        ELSE expr = NegatedThenRest(tokens[2].text, tokens[3], SubSeq(tokens, 4, Len(tokens)))

\* ------------------------------------------------------------------------
\* The recursion budget of bracket-free chains
\* ------------------------------------------------------------------------
\* most names in a bracket-free chain
MaxChain == 12

\* k names joined by o1 and o2 in turn, without brackets
RECURSIVE Chain(_, _, _, _)
Chain(k, name, o1, o2) ==
    IF k = 1 THEN name ELSE name \o o1 \o Chain(k - 1, name, o2, o1)

ChainOfTexts ==
    {Chain(k, n, o1, o2) : k \in 1..MaxChain, n \in Names, o1 \in BinOps, o2 \in BinOps}

InitChain == InitExpr(ChainOfTexts)

SpecChain == InitChain /\ [][NextLex]_vars

\* the number of names of the chain that was lexed
ChainNames == (Len(tokens) + 1) \div 2

\* C21: a bracket-free chain of k names joined by `&`/`|` uses up two levels
\* of the recursion budget per operator: it parses iff 2 * k <= MAX_RECURSION
\* (k <= 10), and a longer one fails with "Expression too deep".
C21_ChainBudget ==
    pc # "start" =>
        IF 2 * ChainNames <= MAX_RECURSION
        THEN expr.ok
        ELSE expr = Err("Expression too deep")

\* a chain of 11 names was rejected as too deep
C21_Witness ==
    /\ pc = "parsed"
    /\ text = Chain(11, A, <<"&">>, <<"|">>)
    /\ ChainNames = 11
    /\ expr = Err("Expression too deep")

\* ------------------------------------------------------------------------
\* The blank-line guard
\* ------------------------------------------------------------------------
C22_EmptyState ==
    \A j \in 1..Len(consumed) :
        LineText(consumed[j]) = <<>> =>
            (j = Len(consumed) /\ status = "error" /\ output = <<>>)

C22_GuardStep ==
    (ReadsALine /\ Len(LineText(JustRead)) = 1 /\ LineText(JustRead) # <<reader.comment>>) =>
        (status' = "reading" /\ records_map' = records_map)

\* C22: the blank-line guard skips a line of length exactly 1 and nothing
\* else: when the loop reaches a line of length 0, finish ends there with an
\* error and returns no records, whatever was accumulated.
C22_EmptyLineFatal == [](C22_EmptyState) /\ [][C22_GuardStep]_vars

\* g1 was accumulated, then an empty line ended the pass with an error
C22_Witness ==
    /\ status = "error"
    /\ consumed = <<Row(G1, DOT, 10, 20, Absent, Absent), EmptyLine>>
    /\ DOMAIN records_map = {G1}
    /\ output = <<>>

====
